---- MODULE Spec2Model ----
(***************************************************************************)
(* Model of the SQL helper API of src/main.py: five request handlers       *)
(* (parse, manipulate, transpile, validate, columns) over the sqlglot      *)
(* front-end.  SQL text is a sequence of lexemes; the library calls the    *)
(* handlers make (parse_one, find, order_by, limit, sql, transpile,        *)
(* selects, str) are operators over a small typed tree; the handlers are   *)
(* step-wise actions of concurrent clients.                                *)
(***************************************************************************)
EXTENDS Integers, Sequences, FiniteSets, TLC

\* ------------------------------------------------------------------ bounds
NumClients == 2
NumInFlight == 2
MaxLimit == 2

Clients == 1..NumClients

\* ---------------------------------------------------------- dialect table
\* SUPPORTED_DIALECTS as written in the source (a Python list).
DialectTable ==
    << "default", "mysql", "sqlite", "postgres", "bigquery", "hive",
       "oracle", "redshift", "snowflake", "sparksql", "tsql" >>

Range(s) == { s[i] : i \in DOMAIN s }

\* `name in SUPPORTED_DIALECTS` against the current value of the list.
InTable(table, name) == name \in Range(table)

\* ------------------------------------------------------------ tree values
NoNode == [kind |-> "None"]

Identifier(name) == [kind |-> "Identifier", this |-> name]
Column(name) == [kind |-> "Column", this |-> Identifier(name)]
Literal(tok) == [kind |-> "Literal", this |-> tok]
Star == [kind |-> "Star"]
Add(l, r) == [kind |-> "Add", this |-> l, expression |-> r]
Alias(e, name) == [kind |-> "Alias", this |-> e, alias |-> Identifier(name)]
Table(name) == [kind |-> "Table", this |-> Identifier(name)]
Subquery(q, name) == [kind |-> "Subquery", this |-> q, alias |-> Identifier(name)]
Order(e) == [kind |-> "Order", expressions |-> << [kind |-> "Ordered", this |-> e] >>]
Limit(tok) == [kind |-> "Limit", expression |-> Literal(tok)]
Fetch(tok) == [kind |-> "Fetch", count |-> Literal(tok)]
Select(exprs, from, order, limit) ==
    [kind |-> "Select", expressions |-> exprs, from |-> from,
     order |-> order, limit |-> limit]
Drop(name) == [kind |-> "Drop", this |-> Table(name)]

\* Decimal text of the integers the model uses.
NumToks == << "1", "2", "3", "4", "5", "6", "7", "8", "9" >>
IntToStr(n) == NumToks[n]
IsNumber(tok) == tok \in Range(NumToks)

\* ------------------------------------------------------------- tokenizer
\* A lexeme that opens a string literal and never closes it.
UnterminatedLit == "'a"

BaseKeywords ==
    { "SELECT", "FROM", "ORDER BY", "LIMIT", "AS", "DROP", "TABLE",
      "FETCH", "FIRST", "ROWS", "ONLY", "(", ")", ",", "+", "*" }

\* TOP is a keyword of the tsql tokenizer only.
Keywords(dialect) ==
    IF dialect = "tsql" THEN BaseKeywords \cup {"TOP"} ELSE BaseKeywords

EOF == "<EOF>"
Peek(t, i) == IF i <= Len(t) THEN t[i] ELSE EOF

IsIdent(tok, dialect) ==
    /\ tok # EOF
    /\ tok \notin Keywords(dialect)
    /\ ~IsNumber(tok)
    /\ tok # UnterminatedLit

\* ----------------------------------------------------------------- parser
\* Every parse function returns [ok, node, pos]: pos is the next unread
\* lexeme.  The first syntax error stops the parse (no recovery).
Parsed(node, pos) == [ok |-> TRUE, node |-> node, pos |-> pos]
Failed(pos) == [ok |-> FALSE, node |-> NoNode, pos |-> pos]

\* Evaluate e once and hand its value to F.
Bind(e, F(_)) == CHOOSE r \in { F(x) : x \in {e} } : TRUE

ParseAtom(t, i, d) ==
    Bind(Peek(t, i), LAMBDA tok :
        IF tok = "*" THEN Parsed(Star, i + 1)
        ELSE IF IsNumber(tok) THEN Parsed(Literal(tok), i + 1)
        ELSE IF IsIdent(tok, d) THEN Parsed(Column(tok), i + 1)
        ELSE Failed(i))

ParseExpr(t, i, d) ==
    Bind(ParseAtom(t, i, d), LAMBDA l :
        IF ~l.ok THEN l
        ELSE IF Peek(t, l.pos) = "+"
        THEN Bind(ParseAtom(t, l.pos + 1, d), LAMBDA r :
                 IF r.ok THEN Parsed(Add(l.node, r.node), r.pos) ELSE Failed(r.pos))
        ELSE l)

ParseProjection(t, i, d) ==
    Bind(ParseExpr(t, i, d), LAMBDA e :
        IF ~e.ok THEN e
        ELSE IF Peek(t, e.pos) = "AS"
        THEN IF IsIdent(Peek(t, e.pos + 1), d)
             THEN Parsed(Alias(e.node, Peek(t, e.pos + 1)), e.pos + 2)
             ELSE Failed(e.pos + 1)
        ELSE e)

\* projection {"," projection}; the list may be empty.  node is the list.
RECURSIVE ParseProjections(_, _, _)
ParseProjections(t, i, d) ==
    Bind(ParseProjection(t, i, d), LAMBDA p :
        IF ~p.ok THEN (IF p.pos = i THEN Parsed(<< >>, i) ELSE Failed(p.pos))
        ELSE IF Peek(t, p.pos) = ","
        THEN Bind(ParseProjections(t, p.pos + 1, d), LAMBDA rest :
                 IF rest.ok /\ rest.node # << >>
                 THEN Parsed(<< p.node >> \o rest.node, rest.pos)
                 ELSE Failed(rest.pos))
        ELSE Parsed(<< p.node >>, p.pos))

\* [TOP n] (tsql) in front of the projections, LIMIT n or
\* FETCH FIRST n ROWS ONLY behind the ORDER BY.
ParseTop(t, i, d) ==
    IF Peek(t, i) = "TOP" /\ "TOP" \in Keywords(d)
    THEN IF IsNumber(Peek(t, i + 1))
         THEN Parsed(Limit(Peek(t, i + 1)), i + 2)
         ELSE Failed(i + 1)
    ELSE Parsed(NoNode, i)

ParseLimit(t, i, d) ==
    IF Peek(t, i) = "LIMIT"
    THEN IF IsNumber(Peek(t, i + 1))
         THEN Parsed(Limit(Peek(t, i + 1)), i + 2)
         ELSE Failed(i + 1)
    ELSE IF Peek(t, i) = "FETCH"
    THEN IF /\ Peek(t, i + 1) = "FIRST"
            /\ IsNumber(Peek(t, i + 2))
            /\ Peek(t, i + 3) = "ROWS"
            /\ Peek(t, i + 4) = "ONLY"
         THEN Parsed(Fetch(Peek(t, i + 2)), i + 5)
         ELSE Failed(i + 1)
    ELSE Parsed(NoNode, i)

ParseOrder(t, i, d) ==
    IF Peek(t, i) = "ORDER BY"
    THEN Bind(ParseExpr(t, i + 1, d), LAMBDA e :
             IF e.ok THEN Parsed(Order(e.node), e.pos) ELSE Failed(e.pos))
    ELSE Parsed(NoNode, i)

RECURSIVE ParseSelect(_, _, _)
ParseFrom(t, i, d) ==
    IF Peek(t, i) # "FROM" THEN Parsed(NoNode, i)
    ELSE IF Peek(t, i + 1) = "("
    THEN Bind(ParseSelect(t, i + 2, d), LAMBDA q :
             IF /\ q.ok
                /\ Peek(t, q.pos) = ")"
                /\ Peek(t, q.pos + 1) = "AS"
                /\ IsIdent(Peek(t, q.pos + 2), d)
             THEN Parsed(Subquery(q.node, Peek(t, q.pos + 2)), q.pos + 3)
             ELSE Failed(q.pos))
    ELSE IF IsIdent(Peek(t, i + 1), d)
    THEN Parsed(Table(Peek(t, i + 1)), i + 2)
    ELSE Failed(i + 1)

ParseSelect(t, i, d) ==
    IF Peek(t, i) # "SELECT" THEN Failed(i) ELSE
    Bind(ParseTop(t, i + 1, d), LAMBDA top :
    IF ~top.ok THEN Failed(top.pos) ELSE
    Bind(ParseProjections(t, top.pos, d), LAMBDA projs :
    IF ~projs.ok THEN Failed(projs.pos) ELSE
    Bind(ParseFrom(t, projs.pos, d), LAMBDA from :
    IF ~from.ok THEN Failed(from.pos) ELSE
    Bind(ParseOrder(t, from.pos, d), LAMBDA order :
    IF ~order.ok THEN Failed(order.pos) ELSE
    Bind(ParseLimit(t, order.pos, d), LAMBDA lim :
    IF ~lim.ok THEN Failed(lim.pos) ELSE
    Parsed(Select(projs.node, from.node, order.node,
                  IF lim.node # NoNode THEN lim.node ELSE top.node),
           lim.pos))))))

ParseStatement(t, d) ==
    IF Peek(t, 1) = "DROP"
    THEN IF Peek(t, 2) = "TABLE" /\ IsIdent(Peek(t, 3), d)
         THEN Parsed(Drop(Peek(t, 3)), 4)
         ELSE Failed(2)
    ELSE ParseSelect(t, 1, d)

\* ------------------------------------------------------------- exceptions
NoExc == [type |-> "None"]
ParseError == [type |-> "ParseError"]
TokenError == [type |-> "TokenError"]
AttributeError == [type |-> "AttributeError"]
HTTPException(status, detail, arg) ==
    [type |-> "HTTPException", status |-> status, detail |-> detail, arg |-> arg]

Returned(value) == [exc |-> NoExc, value |-> value]
Raised(exc) == [exc |-> exc, value |-> NoNode]

\* sqlglot.parse_one(sql, read=dialect): tokenize, parse one statement,
\* reject trailing lexemes.
parse_one(sql, dialect) ==
    IF \E i \in DOMAIN sql : sql[i] = UnterminatedLit
    THEN Raised(TokenError)
    ELSE Bind(ParseStatement(sql, dialect), LAMBDA p :
             IF p.ok /\ p.pos = Len(sql) + 1
             THEN Returned(p.node)
             ELSE Raised(ParseError))

\* -------------------------------------------------------- tree operations
\* Expression.find(kind): search of the node and all of its descendants;
\* the handler only uses whether a match exists.
RECURSIVE Find(_, _)
Find(node, kind) ==
    \/ node.kind = kind
    \/ /\ node.kind = "Select"
       /\ \/ \E i \in DOMAIN node.expressions : Find(node.expressions[i], kind)
          \/ Find(node.from, kind)
          \/ Find(node.order, kind)
          \/ Find(node.limit, kind)
    \/ /\ node.kind \in {"Subquery", "Alias", "Drop"}
       /\ Find(node.this, kind)
    \/ /\ node.kind = "Add"
       /\ (Find(node.this, kind) \/ Find(node.expression, kind))

\* Select.order_by("1"): appends the key to the statement's ORDER BY,
\* creating the clause when there is none.  Only query nodes have it.
order_by(node, key) ==
    IF node.kind = "Select"
    THEN Returned([node EXCEPT !.order =
             IF node.order = NoNode
             THEN Order(Literal(key))
             ELSE [kind |-> "Order",
                   expressions |-> node.order.expressions \o Order(Literal(key)).expressions]])
    ELSE Raised(AttributeError)

\* Select.limit(n): sets or replaces the statement's LIMIT.
limit(node, n) ==
    IF node.kind = "Select"
    THEN Returned([node EXCEPT !.limit = Limit(IntToStr(n))])
    ELSE Raised(AttributeError)

\* Query.selects: the projection list of the outermost SELECT.
selects(node) ==
    IF node.kind = "Select" THEN Returned(node.expressions) ELSE Raised(AttributeError)

\* -------------------------------------------------------------- generator
\* How a dialect spells a row limit.
LimitStyle(dialect) ==
    IF dialect = "tsql" THEN "TOP"
    ELSE IF dialect = "oracle" THEN "FETCH"
    ELSE "LIMIT"

RECURSIVE JoinComma(_)
JoinComma(parts) ==
    IF parts = << >> THEN << >>
    ELSE IF Len(parts) = 1 THEN parts[1]
    ELSE parts[1] \o << "," >> \o JoinComma(Tail(parts))

\* Expression.sql(dialect): the lexemes of the rendered statement.
RECURSIVE sql(_, _)
sql(node, dialect) ==
    CASE node.kind = "None" -> << >>
      [] node.kind = "Identifier" -> << node.this >>
      [] node.kind = "Column" -> sql(node.this, dialect)
      [] node.kind = "Literal" -> << node.this >>
      [] node.kind = "Star" -> << "*" >>
      [] node.kind = "Add" ->
            sql(node.this, dialect) \o << "+" >> \o sql(node.expression, dialect)
      [] node.kind = "Alias" ->
            sql(node.this, dialect) \o << "AS" >> \o sql(node.alias, dialect)
      [] node.kind = "Table" -> sql(node.this, dialect)
      [] node.kind = "Subquery" ->
            << "(" >> \o sql(node.this, dialect) \o << ")", "AS" >>
                \o sql(node.alias, dialect)
      [] node.kind = "Ordered" -> sql(node.this, dialect)
      [] node.kind = "Order" ->
            << "ORDER BY" >>
                \o JoinComma([i \in DOMAIN node.expressions |->
                                 sql(node.expressions[i], dialect)])
      [] node.kind = "Limit" ->
            IF LimitStyle(dialect) = "FETCH"
            THEN << "FETCH", "FIRST" >> \o sql(node.expression, dialect)
                     \o << "ROWS", "ONLY" >>
            ELSE << "LIMIT" >> \o sql(node.expression, dialect)
      [] node.kind = "Fetch" ->
            << "FETCH", "FIRST" >> \o sql(node.count, dialect) \o << "ROWS", "ONLY" >>
      [] node.kind = "Drop" -> << "DROP", "TABLE" >> \o sql(node.this, dialect)
      [] node.kind = "Select" ->
            LET top == node.limit.kind = "Limit" /\ LimitStyle(dialect) = "TOP" IN
            << "SELECT" >>
                \o (IF top THEN << "TOP" >> \o sql(node.limit.expression, dialect)
                    ELSE << >>)
                \o JoinComma([i \in DOMAIN node.expressions |->
                                 sql(node.expressions[i], dialect)])
                \o (IF node.from = NoNode THEN << >>
                    ELSE << "FROM" >> \o sql(node.from, dialect))
                \o sql(node.order, dialect)
                \o (IF top THEN << >> ELSE sql(node.limit, dialect))

\* str(exp.this) for a projection exp: `this` is the node's first operand
\* (the identifier of a column, the aliased expression of an alias, the left
\* operand of a binary operator, the text of a literal), None when the node
\* has no such argument (a star).
ThisText(exp) ==
    IF "this" \in DOMAIN exp
    THEN (IF exp.kind = "Literal" THEN << exp.this >> ELSE sql(exp.this, "default"))
    ELSE << "None" >>

\* sqlglot.transpile(sql, read, write): one rendered string per statement.
transpile(text, read, write) ==
    LET p == parse_one(text, read) IN
    IF p.exc # NoExc THEN p ELSE Returned(<< sql(p.value, write) >>)

\* --------------------------------------------------------------- requests
\* Request texts, one per statement shape the handlers distinguish.
SqlTexts ==
    { << "SELECT", "a", "FROM", "t" >>,
      << "SELECT", "a", ",", "b", "+", "1", ",", "c", "AS", "x", "FROM", "t" >>,
      << "SELECT", "*", "FROM", "t" >>,
      << "SELECT", "a", "FROM", "t", "ORDER BY", "a" >>,
      << "SELECT", "a", "FROM", "t", "LIMIT", "3" >>,
      << "SELECT", "a", "FROM",
         "(", "SELECT", "a", "FROM", "t", "ORDER BY", "a", "LIMIT", "2", ")",
         "AS", "s" >>,
      << "SELECT", "TOP", "2", "a", "FROM", "t" >>,
      << "DROP", "TABLE", "t" >>,
      << "SELECT", "FROM" >>,
      << "SELECT", UnterminatedLit >> }

\* Dialect names a caller sends: three of the table and one outside it.
DialectInputs == { "default", "tsql", "oracle", "nosuch" }

Ops == { "parse", "manipulate", "transpile", "validate", "columns" }

\* The request models (SQLParseRequest .. SQLColumnRequest) after field
\* validation: user_sql is non-empty, limit >= 1.  Fields an operation does
\* not have are held at a fixed value.
Request(id, op, text, wo, lim, d, sd, td) ==
    [id |-> id, op |-> op, user_sql |-> text, with_order |-> wo, limit |-> lim,
     dialect |-> d, source_dialect |-> sd, target_dialect |-> td]

Requests(id) ==
    { Request(id, op, text, FALSE, 1, "default", "default", "default") :
          op \in {"parse", "validate", "columns"}, text \in SqlTexts }
    \cup
    { Request(id, "manipulate", text, wo, lim, d, "default", "default") :
          text \in SqlTexts, wo \in BOOLEAN, lim \in 1..MaxLimit, d \in DialectInputs }
    \cup
    { Request(id, "transpile", text, FALSE, 1, "default", sd, td) :
          text \in SqlTexts, sd \in DialectInputs, td \in DialectInputs }

NoReq == Request(0, "none", << >>, FALSE, 1, "default", "default", "default")

\* -------------------------------------------------------------- responses
NoResp == [kind |-> "none", status |-> 0, body |-> [none |-> TRUE]]
Success(body) == [kind |-> "success", status |-> 200, body |-> body]

\* What the framework does with an exception that leaves a handler: an
\* HTTPException becomes the error response it describes; anything else is
\* an unhandled exception of the handler.
Respond(e) ==
    IF e.type = "HTTPException"
    THEN [kind |-> "error", status |-> e.status,
          body |-> [detail |-> e.detail, arg |-> e.arg]]
    ELSE [kind |-> "uncaught", status |-> 0, body |-> [exception |-> e.type]]

\* str(e) of a caught exception.
ExcText(e) == IF e.type = "HTTPException" THEN e.detail ELSE e.type

MsgParse == "SQL parse edilemedi: "
MsgParseInvalid == "SQL parse edilemedi. Gecersiz sorgu: "
MsgOrder == "'ORDER BY' eklenirken hata olustu: "
MsgLimit == "'LIMIT' eklenirken hata olustu: "
MsgDialect == "Gecersiz dialect "
MsgUnsupported == "Desteklenmeyen dialect. Desteklenen dialect'ler: "
MsgUnexpected == "Beklenmeyen bir hata olustu: "

\* The except clauses of each handler, applied to an exception raised inside
\* its try block.  HTTPException is a subclass of Exception.
ParseExcept(e) ==
    IF e.type = "ParseError"
    THEN Respond(HTTPException(400, MsgParse, ExcText(e)))
    ELSE Respond(e)

\* manipulate_sql without its `except ParseError` clause.
ManipulateExceptNoParse(e) ==
    Respond(HTTPException(500, MsgUnexpected, ExcText(e)))

ManipulateExcept(e) ==
    IF e.type = "ParseError"
    THEN Respond(HTTPException(400, MsgParseInvalid, ExcText(e)))
    ELSE Respond(HTTPException(500, MsgUnexpected, ExcText(e)))

TranspileExcept(e) ==
    IF e.type = "ParseError"
    THEN Respond(HTTPException(400, MsgParse, ExcText(e)))
    ELSE Respond(HTTPException(500, MsgUnexpected, ExcText(e)))

\* validate_sql with a bare `except` answering invalid.
ValidateExceptAny(e) == Success([valid |-> FALSE])

ValidateExcept(e) ==
    IF e.type = "ParseError"
    THEN Success([valid |-> FALSE])
    ELSE Respond(HTTPException(500, MsgUnexpected, ExcText(e)))

ColumnsExcept(e) ==
    IF e.type = "ParseError"
    THEN Respond(HTTPException(400, MsgParse, ExcText(e)))
    ELSE Respond(HTTPException(500, MsgUnexpected, ExcText(e)))

\* The membership test with `and` in place of `or`.
DialectsRejectedBoth(table, sd, td) == ~InTable(table, sd) /\ ~InTable(table, td)

\* The membership test of transpile_sql.
DialectsRejected(table, sd, td) == ~InTable(table, sd) \/ ~InTable(table, td)

\* The list comprehension of get_columns over parsed.selects.
ColumnList(exprs) == [i \in DOMAIN exprs |-> ThisText(exprs[i])]

\* ------------------------------------------------------------------ state
VARIABLES
    SUPPORTED_DIALECTS,  \* the module-level list
    inbox,               \* requests sent and not yet accepted
    pc,                  \* per client: position in its handler
    req,                 \* per client: the request being served
    parsed,              \* per client: the handler's local `parsed`
    called,              \* per client: arguments the handler passed to transpile
    resp                 \* per client: the response of the request

vars == << SUPPORTED_DIALECTS, inbox, pc, req, parsed, called, resp >>

NoCall == [made |-> FALSE, read |-> "", write |-> ""]

Idle ==
    /\ SUPPORTED_DIALECTS = DialectTable
    /\ pc = [c \in Clients |-> "idle"]
    /\ req = [c \in Clients |-> NoReq]
    /\ parsed = [c \in Clients |-> NoNode]
    /\ called = [c \in Clients |-> NoCall]
    /\ resp = [c \in Clients |-> NoResp]

\* One request in flight, drawn from the whole request space.
Init ==
    /\ Idle
    /\ \E r \in Requests(1) : inbox = {r}

\* Requests the concurrent runs draw from: every operation, with inputs that
\* take each of its exits.
ConcRequests(id) ==
    { r \in Requests(id) :
        /\ r.user_sql \in { << "SELECT", "a", "FROM", "t" >>,
                            << "DROP", "TABLE", "t" >>,
                            << "SELECT", "FROM" >> }
        /\ r.op = "manipulate" =>
               r.with_order /\ r.limit = 1 /\ r.dialect \in {"tsql", "nosuch"}
        /\ r.op = "transpile" =>
               r.source_dialect = "tsql" /\ r.target_dialect \in {"default", "nosuch"} }

\* NumInFlight requests in flight at once.
InitConc ==
    /\ Idle
    /\ \E f \in [1..NumInFlight -> ConcRequests(0)] :
          inbox = { [f[i] EXCEPT !.id = i] : i \in 1..NumInFlight }

\* ---------------------------------------------------------------- actions
Finish(c, response) ==
    /\ pc' = [pc EXCEPT ![c] = "done"]
    /\ resp' = [resp EXCEPT ![c] = response]

\* A client takes a request; the handler starts with fresh locals.
Accept(c) ==
    /\ pc[c] \in {"idle", "done"}
    /\ \E r \in inbox :
          /\ inbox' = inbox \ {r}
          /\ req' = [req EXCEPT ![c] = r]
    /\ pc' = [pc EXCEPT ![c] = "start"]
    /\ parsed' = [parsed EXCEPT ![c] = NoNode]
    /\ called' = [called EXCEPT ![c] = NoCall]
    /\ resp' = [resp EXCEPT ![c] = NoResp]
    /\ UNCHANGED SUPPORTED_DIALECTS

\* parse_sql
ParseSql(c) ==
    /\ pc[c] = "start" /\ req[c].op = "parse"
    /\ LET p == parse_one(req[c].user_sql, "default") IN
       IF p.exc = NoExc
       THEN Finish(c, Success([ast |-> p.value]))
       ELSE Finish(c, ParseExcept(p.exc))
    /\ UNCHANGED << SUPPORTED_DIALECTS, inbox, req, parsed, called >>

\* manipulate_sql, line 73: parsed = parse_one(request.user_sql)
ManipulateParse(c) ==
    /\ pc[c] = "start" /\ req[c].op = "manipulate"
    /\ LET p == parse_one(req[c].user_sql, "default") IN
       IF p.exc = NoExc
       THEN /\ parsed' = [parsed EXCEPT ![c] = p.value]
            /\ pc' = [pc EXCEPT ![c] = "order"]
            /\ UNCHANGED resp
       ELSE /\ Finish(c, ManipulateExcept(p.exc))
            /\ UNCHANGED parsed
    /\ UNCHANGED << SUPPORTED_DIALECTS, inbox, req, called >>

\* manipulate_sql, lines 76-83
ManipulateOrder(c) ==
    /\ pc[c] = "order"
    /\ IF req[c].with_order /\ ~Find(parsed[c], "Order")
       THEN LET o == order_by(parsed[c], "1") IN
            IF o.exc = NoExc
            THEN /\ parsed' = [parsed EXCEPT ![c] = o.value]
                 /\ pc' = [pc EXCEPT ![c] = "limit"]
                 /\ UNCHANGED resp
            ELSE /\ Finish(c, ManipulateExcept(
                                  HTTPException(400, MsgOrder, ExcText(o.exc))))
                 /\ UNCHANGED parsed
       ELSE /\ pc' = [pc EXCEPT ![c] = "limit"]
            /\ UNCHANGED << parsed, resp >>
    /\ UNCHANGED << SUPPORTED_DIALECTS, inbox, req, called >>

\* The LIMIT step leaving alone a statement that already has a LIMIT.
ManipulateLimitSkip(c) ==
    /\ pc[c] = "limit"
    /\ LET l == IF parsed[c].kind = "Select" /\ parsed[c].limit # NoNode
                THEN Returned(parsed[c])
                ELSE limit(parsed[c], req[c].limit) IN
       IF l.exc = NoExc
       THEN /\ parsed' = [parsed EXCEPT ![c] = l.value]
            /\ pc' = [pc EXCEPT ![c] = "render"]
            /\ UNCHANGED resp
       ELSE /\ Finish(c, ManipulateExcept(
                             HTTPException(400, MsgLimit, ExcText(l.exc))))
            /\ UNCHANGED parsed
    /\ UNCHANGED << SUPPORTED_DIALECTS, inbox, req, called >>

\* manipulate_sql, lines 86-92
ManipulateLimit(c) ==
    /\ pc[c] = "limit"
    /\ LET l == limit(parsed[c], req[c].limit) IN
       IF l.exc = NoExc
       THEN /\ parsed' = [parsed EXCEPT ![c] = l.value]
            /\ pc' = [pc EXCEPT ![c] = "render"]
            /\ UNCHANGED resp
       ELSE /\ Finish(c, ManipulateExcept(
                             HTTPException(400, MsgLimit, ExcText(l.exc))))
            /\ UNCHANGED parsed
    /\ UNCHANGED << SUPPORTED_DIALECTS, inbox, req, called >>

\* The dialect check registering an unknown name in the module-level list.
ManipulateRenderRegistering(c) ==
    /\ pc[c] = "render"
    /\ IF ~InTable(SUPPORTED_DIALECTS, req[c].dialect)
       THEN /\ SUPPORTED_DIALECTS' = Append(SUPPORTED_DIALECTS, req[c].dialect)
            /\ Finish(c, ManipulateExcept(
                              HTTPException(400, MsgDialect, req[c].dialect)))
       ELSE /\ UNCHANGED SUPPORTED_DIALECTS
            /\ Finish(c, Success([manipulated_sql |-> sql(parsed[c], req[c].dialect)]))
    /\ UNCHANGED << inbox, req, parsed, called >>

\* manipulate_sql, lines 95-102
ManipulateRender(c) ==
    /\ pc[c] = "render"
    /\ IF ~InTable(SUPPORTED_DIALECTS, req[c].dialect)
       THEN Finish(c, ManipulateExcept(
                          HTTPException(400, MsgDialect, req[c].dialect)))
       ELSE Finish(c, Success([manipulated_sql |-> sql(parsed[c], req[c].dialect)]))
    /\ UNCHANGED << SUPPORTED_DIALECTS, inbox, req, parsed, called >>

\* transpile_sql, lines 120-124: raised outside the try block
TranspileCheck(c) ==
    /\ pc[c] = "start" /\ req[c].op = "transpile"
    /\ IF DialectsRejected(SUPPORTED_DIALECTS, req[c].source_dialect,
                           req[c].target_dialect)
       THEN Finish(c, Respond(HTTPException(400, MsgUnsupported, "")))
       ELSE /\ pc' = [pc EXCEPT ![c] = "transpile"]
            /\ UNCHANGED resp
    /\ UNCHANGED << SUPPORTED_DIALECTS, inbox, req, parsed, called >>

\* transpile_sql, lines 126-139
TranspileRun(c) ==
    /\ pc[c] = "transpile"
    /\ called' = [called EXCEPT ![c] =
           [made |-> TRUE, read |-> req[c].source_dialect,
            write |-> req[c].target_dialect]]
    /\ LET t == transpile(req[c].user_sql, req[c].source_dialect,
                          req[c].target_dialect) IN
       IF t.exc = NoExc
       THEN Finish(c, Success([transpiled_sql |-> t.value[1]]))
       ELSE Finish(c, TranspileExcept(t.exc))
    /\ UNCHANGED << SUPPORTED_DIALECTS, inbox, req, parsed >>

\* validate_sql
ValidateSql(c) ==
    /\ pc[c] = "start" /\ req[c].op = "validate"
    /\ LET p == parse_one(req[c].user_sql, "default") IN
       IF p.exc = NoExc
       THEN Finish(c, Success([valid |-> TRUE]))
       ELSE Finish(c, ValidateExcept(p.exc))
    /\ UNCHANGED << SUPPORTED_DIALECTS, inbox, req, parsed, called >>

\* get_columns
GetColumns(c) ==
    /\ pc[c] = "start" /\ req[c].op = "columns"
    /\ LET p == parse_one(req[c].user_sql, "default") IN
       IF p.exc # NoExc
       THEN /\ Finish(c, ColumnsExcept(p.exc))
            /\ UNCHANGED parsed
       ELSE /\ parsed' = [parsed EXCEPT ![c] = p.value]
            /\ LET s == selects(p.value) IN
               IF s.exc = NoExc
               THEN Finish(c, Success([columns |-> ColumnList(s.value)]))
               ELSE Finish(c, ColumnsExcept(s.exc))
    /\ UNCHANGED << SUPPORTED_DIALECTS, inbox, req, called >>

Next ==
    \/ \E c \in Clients : Accept(c)
    \/ \E c \in Clients : ParseSql(c)
    \/ \E c \in Clients : ManipulateParse(c)
    \/ \E c \in Clients : ManipulateOrder(c)
    \/ \E c \in Clients : ManipulateLimit(c)
    \/ \E c \in Clients : ManipulateRender(c)
    \/ \E c \in Clients : TranspileCheck(c)
    \/ \E c \in Clients : TranspileRun(c)
    \/ \E c \in Clients : ValidateSql(c)
    \/ \E c \in Clients : GetColumns(c)

Spec == Init /\ [][Next]_vars

SpecConc == InitConc /\ [][Next]_vars

\* ------------------------------------------- handlers as pure functions
\* Each handler run alone, start to end, against the table as initialised.
ParseFn(r) ==
    LET p == parse_one(r.user_sql, "default") IN
    IF p.exc = NoExc THEN Success([ast |-> p.value]) ELSE ParseExcept(p.exc)

ManipulateFn(r) ==
    LET p == parse_one(r.user_sql, "default") IN
    IF p.exc # NoExc THEN ManipulateExcept(p.exc) ELSE
    LET o == IF r.with_order /\ ~Find(p.value, "Order")
             THEN order_by(p.value, "1")
             ELSE Returned(p.value) IN
    IF o.exc # NoExc
    THEN ManipulateExcept(HTTPException(400, MsgOrder, ExcText(o.exc))) ELSE
    LET l == limit(o.value, r.limit) IN
    IF l.exc # NoExc
    THEN ManipulateExcept(HTTPException(400, MsgLimit, ExcText(l.exc))) ELSE
    IF ~InTable(DialectTable, r.dialect)
    THEN ManipulateExcept(HTTPException(400, MsgDialect, r.dialect))
    ELSE Success([manipulated_sql |-> sql(l.value, r.dialect)])

TranspileFn(r) ==
    IF DialectsRejected(DialectTable, r.source_dialect, r.target_dialect)
    THEN Respond(HTTPException(400, MsgUnsupported, ""))
    ELSE LET t == transpile(r.user_sql, r.source_dialect, r.target_dialect) IN
         IF t.exc = NoExc
         THEN Success([transpiled_sql |-> t.value[1]])
         ELSE TranspileExcept(t.exc)

ValidateFn(r) ==
    LET p == parse_one(r.user_sql, "default") IN
    IF p.exc = NoExc THEN Success([valid |-> TRUE]) ELSE ValidateExcept(p.exc)

ColumnsFn(r) ==
    LET p == parse_one(r.user_sql, "default") IN
    IF p.exc # NoExc THEN ColumnsExcept(p.exc) ELSE
    LET s == selects(p.value) IN
    IF s.exc = NoExc
    THEN Success([columns |-> ColumnList(s.value)])
    ELSE ColumnsExcept(s.exc)

Outcome(r) ==
    CASE r.op = "parse" -> ParseFn(r)
      [] r.op = "manipulate" -> ManipulateFn(r)
      [] r.op = "transpile" -> TranspileFn(r)
      [] r.op = "validate" -> ValidateFn(r)
      [] r.op = "columns" -> ColumnsFn(r)

\* ----------------------------------------------------------------- claims
Done(c) == pc[c] = "done"
Serving(c, op) == req[c].op = op
Supported(name) == name \in Range(DialectTable)
Source(c) == parse_one(req[c].user_sql, "default")
IsError(r, status) == r.kind = "error" /\ r.status = status
Succeeded(c) == Done(c) /\ resp[c].kind = "success"

\* Positions of the row-limit clauses of the outermost statement of a text.
Depth(t, i) ==
    Cardinality({ j \in 1..(i - 1) : t[j] = "(" })
        - Cardinality({ j \in 1..(i - 1) : t[j] = ")" })
OuterLimits(t) ==
    { i \in DOMAIN t : t[i] \in {"LIMIT", "TOP", "FIRST"} /\ Depth(t, i) = 0 }

\* The text of a projected expression with its alias stripped.
ExprText(e) == IF e.kind = "Alias" THEN sql(e.this, "default") ELSE sql(e, "default")

\* C1: a manipulate request whose dialect is outside the supported set ends
\* with the unknown-dialect client error (400, naming the dialect), whatever
\* the SQL, with_order and limit are.
C1_UnknownDialectIs400 ==
    \A c \in Clients :
        (Done(c) /\ Serving(c, "manipulate") /\ ~Supported(req[c].dialect))
            => /\ IsError(resp[c], 400)
               /\ resp[c].body.detail = MsgDialect
               /\ resp[c].body.arg = req[c].dialect

\* C2: transpile checks both dialect names against the supported set before
\* parsing: the library's transpile is only ever called with two supported
\* names, and a request with a name outside the set ends with the
\* unsupported-dialect error (400) without that call having been made.
C2_DialectsCheckedBeforeParsing ==
    \A c \in Clients :
        Serving(c, "transpile") =>
            /\ called[c].made =>
                   /\ Supported(called[c].read) /\ Supported(called[c].write)
                   /\ called[c].read = req[c].source_dialect
                   /\ called[c].write = req[c].target_dialect
            /\ pc[c] = "transpile" =>
                   Supported(req[c].source_dialect) /\ Supported(req[c].target_dialect)
            /\ (Done(c) /\ ~(Supported(req[c].source_dialect)
                             /\ Supported(req[c].target_dialect)))
                   => /\ IsError(resp[c], 400)
                      /\ resp[c].body.detail = MsgUnsupported
                      /\ ~called[c].made

C2_Witness ==
    \E c \in Clients :
        /\ Done(c) /\ Serving(c, "transpile")
        /\ Supported(req[c].source_dialect) /\ ~Supported(req[c].target_dialect)
        /\ Source(c).exc = NoExc
        /\ IsError(resp[c], 400) /\ ~called[c].made

\* C3: every request that fails, in any of the five operations, ends in a
\* structured error (400 or 500 with a detail string); no exception leaves a
\* handler unclassified.
C3_EveryFailureClassified ==
    \A c \in Clients :
        Done(c) =>
            /\ resp[c].kind \in {"success", "error"}
            /\ resp[c].kind = "error" =>
                   resp[c].status \in {400, 500} /\ resp[c].body.detail # ""

\* C4: validate answers valid=true exactly when the parse succeeds,
\* valid=false exactly when it raises ParseError, and a system error (500)
\* exactly when it fails otherwise; exactly one of the three holds.
C4_ValidateOutcomes ==
    \A c \in Clients :
        (Done(c) /\ Serving(c, "validate")) =>
            LET e == Source(c).exc
                valid == resp[c].kind = "success" /\ resp[c].body.valid
                invalid == resp[c].kind = "success" /\ ~resp[c].body.valid
                system == IsError(resp[c], 500)
            IN /\ valid <=> e = NoExc
               /\ invalid <=> e = ParseError
               /\ system <=> e \notin {NoExc, ParseError}
               /\ Cardinality({ b \in {1, 2, 3} :
                      \/ b = 1 /\ valid
                      \/ b = 2 /\ invalid
                      \/ b = 3 /\ system }) = 1

C4_Witness ==
    \E c \in Clients :
        /\ Done(c) /\ Serving(c, "validate")
        /\ Source(c).exc = ParseError
        /\ resp[c] = Success([valid |-> FALSE])

\* C5: in manipulate, once the ORDER BY step has run on a parsed SELECT:
\* with with_order=true a statement that has an ORDER BY of its own keeps it
\* unchanged and any other statement carries ORDER BY 1 on the outermost
\* statement; with with_order=false the ORDER BY is as parsed.
C5_OrderByOnOutermost ==
    \A c \in Clients :
        (/\ Serving(c, "manipulate")
         /\ pc[c] \in {"limit", "render"} \/ Succeeded(c)
         /\ Source(c).exc = NoExc
         /\ Source(c).value.kind = "Select")
            => LET own == Source(c).value.order IN
               IF req[c].with_order /\ own = NoNode
               THEN parsed[c].order = Order(Literal("1"))
               ELSE parsed[c].order = own

\* C6: manipulate with with_order=true on a parsed statement that cannot
\* carry an ORDER BY ends with the client error (400) saying the ORDER BY
\* could not be added, never with SQL and never with a system error (500).
C6_OrderByOnNonSelectIs400 ==
    \A c \in Clients :
        (/\ Done(c) /\ Serving(c, "manipulate") /\ req[c].with_order
         /\ Source(c).exc = NoExc
         /\ Source(c).value.kind # "Select")
            => /\ IsError(resp[c], 400)
               /\ resp[c].body.detail = MsgOrder

\* C7: columns of a parsed SELECT is one string per projected expression of
\* the outermost SELECT, in source order, each the text of the whole
\* expression with an alias stripped (b+1 gives "b+1", * gives "*").
C7_ColumnsAreProjectionTexts ==
    \A c \in Clients :
        (/\ Done(c) /\ Serving(c, "columns")
         /\ Source(c).exc = NoExc
         /\ Source(c).value.kind = "Select")
            => LET exprs == Source(c).value.expressions IN
               resp[c] = Success([columns |->
                             [i \in DOMAIN exprs |-> ExprText(exprs[i])]])

C9_ParseErrorIs400 ==
    \A c \in Clients :
        (Serving(c, "manipulate") /\ Source(c).exc = ParseError) =>
            /\ pc[c] \in {"start", "done"}
            /\ parsed[c] = NoNode
            /\ Done(c) =>
                   /\ IsError(resp[c], 400)
                   /\ resp[c].body.detail = MsgParseInvalid
                   /\ resp[c].body.detail # ""
                   /\ "manipulated_sql" \notin DOMAIN resp[c].body

C9_Witness ==
    \E c \in Clients :
        /\ Done(c) /\ Serving(c, "manipulate")
        /\ Source(c).exc = ParseError
        /\ req[c].with_order /\ ~Supported(req[c].dialect)
        /\ IsError(resp[c], 400)

\* C10: the supported-dialect table is the same 11 names in every reachable
\* state, and under every interleaving of concurrent requests each finished
\* request has the outcome it has when run alone on its own inputs.
C10_Stateless ==
    /\ SUPPORTED_DIALECTS = DialectTable
    /\ Len(SUPPORTED_DIALECTS) = 11
    /\ Cardinality(Range(SUPPORTED_DIALECTS)) = 11
    /\ \A c \in Clients : Done(c) => resp[c] = Outcome(req[c])

C10_Witness ==
    \E c1, c2 \in Clients :
        /\ c1 # c2
        /\ Done(c1) /\ Serving(c1, "manipulate")
        /\ ~Supported(req[c1].dialect) /\ Source(c1).exc = NoExc
        /\ pc[c2] = "transpile"
        /\ resp[c1] = Outcome(req[c1])

====
